---- MODULE Spec2Model ----
(***************************************************************************)
(* Model of the DCF77 decoder of src/src/lib.rs.                           *)
(*                                                                         *)
(* SimpleDCF77Decoder is the sample-level state machine: read_bit is       *)
(* called once per 10 ms with the level of the receiver pin.  The u64      *)
(* register `data` is modelled as the set of the indices of its 1 bits.    *)
(* Arithmetic that overflows (u8 `+= 1`, `1 << n` on u64, `data_pos - 1`   *)
(* on usize) depends on the build profile: it panics when the build has    *)
(* overflow checks and wraps when it has none.  overflow_checks is the     *)
(* profile of the build; both are modelled.                                *)
(***************************************************************************)
EXTENDS Integers, FiniteSets, Sequences, TLC

VARIABLES
    \* fields of SimpleDCF77Decoder
    sample_count, zero_bit_count, one_bit_count, non_idle_count,
    state, data, data_pos,
    \* the build profile, and TRUE once a call has panicked (the program has
    \* stopped)
    overflow_checks, panicked,
    \* the signal source: the shape of the current second, the number of its
    \* samples already submitted, seconds started, bit seconds of this minute,
    \* minutes started, and the bit pattern the clean minutes carry
    shape, k, seconds, secIdx, minute, pattern,
    \* history of the run: the decoder before the latest call and the sample
    \* of that call, and what the claims are stated about
    prev, lowRun, sinceSync, hi1, hi2, waitLows, waitEoc, written,
    startWaiting, minStartOk, clean, frame, completes, bitsOk, faults, eocs,
    hi3, lowEoc, eocGap,
    \* DCF77Time: the register wrapped (the set of the indices of its 1 bits),
    \* how it was drawn, and the latest accessor call with its result
    time, tin, out

vars == << sample_count, zero_bit_count, one_bit_count, non_idle_count,
           state, data, data_pos, overflow_checks, panicked,
           shape, k, seconds, secIdx, minute, pattern,
           prev, lowRun, sinceSync, hi1, hi2, waitLows, waitEoc, written,
           startWaiting, minStartOk, clean, frame, completes, bitsOk, faults, eocs,
           hi3, lowEoc, eocGap, time, tin, out >>

(***************************************************************************)
(* Bounds of the model.                                                    *)
(***************************************************************************)
\* seconds of arbitrary second shapes fed in Spec
MaxSeconds == 3
\* minutes of clean signal fed in SpecMinute
MaxMinutes == 2
\* period of the bit pattern of a clean minute
FreeBits == 2
\* bit seconds a minute may run to when its silent second is missing
MaxBits == 66

\* bits inverted in the frame of a valid minute
MaxFlips == 1
\* seconds of arbitrary and disturbed second shapes fed in SpecNoisy
NoisySeconds == 2

(***************************************************************************)
(* Constants of the protocol, as the source documents them.                *)
(***************************************************************************)
\* read_bit is called every 10 ms: 100 samples per second
SecondLen == 100
\* a DCF77 minute carries 59 bits
MinuteBits == 59

(***************************************************************************)
(* Integer arithmetic of the source.  A result is [panic, val]: whether    *)
(* the operation panics, and its value when it does not.                   *)
(***************************************************************************)
\* u8 `x += 1`
AddU8(x) ==
    IF x < 255 THEN [panic |-> FALSE, val |-> x + 1]
    ELSE [panic |-> overflow_checks, val |-> 0]

\* u64 `1 << n`: val is the index of the single bit of the mask
ShlU64(n) ==
    IF n < 64 THEN [panic |-> FALSE, val |-> n]
    ELSE [panic |-> overflow_checks, val |-> n % 64]

\* usize `n - 1` followed by u64 `1 << (n - 1)`, as latest_bit computes its
\* mask: 0 - 1 wraps to usize::MAX, of which the shift keeps the low 6 bits
ShlU64Pred(n) ==
    IF n = 0 THEN [panic |-> overflow_checks, val |-> 63]
    ELSE ShlU64(n - 1)

\* u8 arithmetic whose exact result is v
ArithU8(v) ==
    IF v < 256 THEN [panic |-> FALSE, val |-> v]
    ELSE [panic |-> overflow_checks, val |-> v % 256]

(***************************************************************************)
(* DCF77Time.  A checked accessor yields [tag, val]: tag "Ok" with the     *)
(* value (a tuple), "Err", or "Panic"; an unchecked one yields [panic,     *)
(* val].                                                                   *)
(***************************************************************************)
Ok(v) == [tag |-> "Ok", val |-> v]

Err == [tag |-> "Err", val |-> << >>]

Panicked == [tag |-> "Panic", val |-> << >>]

\* DCF77Time::new
DCF77Time(dcf77bits) == dcf77bits

\* `(self.0 >> start) & mask` for a mask of len bits: the value of the bits
\* start .. start + len - 1
RECURSIVE SubWord(_, _, _)
SubWord(reg, start, len) ==
    IF len = 0 THEN 0
    ELSE (IF start \in reg THEN 1 ELSE 0) + 2 * SubWord(reg, start + 1, len - 1)

\* the loop of calculate_parity: n iterations left, the mask at bit m
RECURSIVE ParityLoop(_, _, _, _)
ParityLoop(reg, m, n, parity) ==
    IF n = 0 THEN parity
    ELSE ParityLoop(reg, m + 1, n - 1, parity # (m \in reg))

\* calculate_parity with the range one bit short
calculate_parity_Short(reg, start, end) ==
    ParityLoop(reg, start, end - start, FALSE)

\* DCF77Time::calculate_parity
calculate_parity(reg, start, end) ==
    ParityLoop(reg, start, end - start + 1, FALSE)

\* calculate_2digit_bcd with the high nibble weighted 16
calculate_2digit_bcd_Hex(reg, start, end) ==
    ArithU8(SubWord(reg, start, end - start + 1) % 256)

\* DCF77Time::calculate_2digit_bcd
calculate_2digit_bcd(reg, start, end) ==
    LET bcd == SubWord(reg, start, end - start + 1)
        high_nibble == (bcd % 256) \div 16
        low_nibble == (bcd % 256) % 16
        product == ArithU8(high_nibble * 10)
    IN  IF product.panic THEN product
        ELSE ArithU8(product.val + low_nibble)

validate_start(reg) == IF 0 \in reg THEN Err ELSE Ok(<< >>)

cest_unchecked(reg) == 17 \in reg

cest(reg) ==
    IF (18 \in reg) = cest_unchecked(reg) THEN Err
    ELSE Ok(<< cest_unchecked(reg) >>)

minutes_unchecked(reg) == calculate_2digit_bcd(reg, 21, 27)

\* minutes without the parity test
minutes_NoParity(reg) ==
    LET m == minutes_unchecked(reg)
    IN  IF m.panic THEN Panicked
        ELSE IF m.val > 59 THEN Err
        ELSE Ok(<< m.val >>)

\* DCF77Time::minutes
minutes(reg) ==
    LET parity == calculate_parity(reg, 21, 27)
        m == minutes_unchecked(reg)
    IN  IF m.panic THEN Panicked
        ELSE IF ((28 \in reg) # parity) \/ m.val > 59 THEN Err
        ELSE Ok(<< m.val >>)

hours_unchecked(reg) == calculate_2digit_bcd(reg, 29, 34)

\* DCF77Time::hours
hours(reg) ==
    LET parity == calculate_parity(reg, 29, 34)
        h == hours_unchecked(reg)
    IN  IF h.panic THEN Panicked
        ELSE IF ((35 \in reg) # parity) \/ h.val > 23 THEN Err
        ELSE Ok(<< h.val >>)

day_unchecked(reg) == calculate_2digit_bcd(reg, 36, 41)

\* DCF77Time::day
day(reg) ==
    LET d == day_unchecked(reg)
    IN  IF d.panic THEN Panicked
        ELSE IF d.val > 31 THEN Err
        ELSE Ok(<< d.val >>)

weekday_unchecked(reg) == calculate_2digit_bcd(reg, 42, 44)

month_unchecked(reg) == calculate_2digit_bcd(reg, 45, 49)

\* year_unchecked: 2000 + the two digits, in u16
year_unchecked(reg) ==
    LET y == calculate_2digit_bcd(reg, 50, 57)
    IN  [panic |-> y.panic, val |-> 2000 + y.val]

\* date without the range test of the year
date_NoYearRange(reg) ==
    LET parity == calculate_parity(reg, 36, 57)
        y == year_unchecked(reg)
        mo == month_unchecked(reg)
        d == day_unchecked(reg)
        w == weekday_unchecked(reg)
    IN  IF (58 \in reg) # parity THEN Err
        ELSE IF y.panic \/ mo.panic \/ d.panic \/ w.panic THEN Panicked
        ELSE IF mo.val > 12 \/ d.val > 31 \/ w.val > 7 THEN Err
        ELSE Ok(<< y.val, mo.val, d.val, w.val >>)

\* DCF77Time::date
date(reg) ==
    LET parity == calculate_parity(reg, 36, 57)
        y == year_unchecked(reg)
        mo == month_unchecked(reg)
        d == day_unchecked(reg)
        w == weekday_unchecked(reg)
    IN  IF (58 \in reg) # parity THEN Err
        ELSE IF y.panic \/ mo.panic \/ d.panic \/ w.panic THEN Panicked
        ELSE IF y.val > 2100 \/ mo.val > 12 \/ d.val > 31 \/ w.val > 7 THEN Err
        ELSE Ok(<< y.val, mo.val, d.val, w.val >>)

(***************************************************************************)
(* SimpleDCF77Decoder.                                                     *)
(***************************************************************************)
SimpleDCF77DecoderState ==
    {"WaitingForPhase", "PhaseFound", "BitReceived", "FaultyBit", "EndOfCycle", "Idle"}

\* SimpleDCF77Decoder::new
new ==
    [sample_count |-> 0, zero_bit_count |-> 0, one_bit_count |-> 0,
     non_idle_count |-> 0, state |-> "WaitingForPhase", data |-> {},
     data_pos |-> 0, panicked |-> FALSE]

\* the decoder of the current state, as one value
Self ==
    [sample_count |-> sample_count, zero_bit_count |-> zero_bit_count,
     one_bit_count |-> one_bit_count, non_idle_count |-> non_idle_count,
     state |-> state, data |-> data, data_pos |-> data_pos,
     panicked |-> panicked]

raw_data(self) == self.data

bit_complete(self) == self.state = "BitReceived"

bit_faulty(self) == self.state = "FaultyBit"

end_of_cycle(self) == self.state = "EndOfCycle"

seconds_of(self) == self.data_pos

BoolStr(b) == IF b THEN "true" ELSE "false"

\* latest_bit: "true" or "false", or "panic" when the mask computation
\* overflows in a build with overflow checks
latest_bit(self) ==
    LET m == ShlU64Pred(self.data_pos)
    IN  IF m.panic THEN "panic" ELSE BoolStr(m.val \in self.data)

\* a call that panics leaves the decoder as it is at the panic
Panic(self) == [self EXCEPT !.panicked = TRUE]

\* EndOfCycleDue with no wait at all
EndOfCycleDue_Gt0(count) == count > 0

\* EndOfCycleDue with `>=` for `>`
EndOfCycleDue_Ge180(count) == count >= 180

\* EndOfCycleDue with the threshold one too high
EndOfCycleDue_Gt181(count) == count > 181

\* `self.sample_count > 180`
EndOfCycleDue(count) == count > 180

\* InScan with the scan one sample longer
InScan_Lt21(count) == count < 21

\* `self.sample_count < 20` and `self.sample_count < 10`
InScan(count) == count < 20

\* InZeroWindow with the bound of the whole scan
InZeroWindow_Lt20(count) == count < 20

InZeroWindow(count) == count < 10

\* BitDecision with the two tests in the other order
BitDecision_ZeroFirst(zeros, ones) ==
    IF zeros > 3 THEN "zero"
    ELSE IF ones > 3 THEN "one"
    ELSE "faulty"

\* BitDecision with `>= 3` for `> 3`
BitDecision_Ge3(zeros, ones) ==
    IF ones >= 3 THEN "one"
    ELSE IF zeros >= 3 THEN "zero"
    ELSE "faulty"

\* the decision of the PhaseFound arm
BitDecision(zeros, ones) ==
    IF ones > 3 THEN "one"
    ELSE IF zeros > 3 THEN "zero"
    ELSE "faulty"

\* SettleOver with `>` for `>=`
SettleOver_Gt90(count) == count > 90

\* `self.sample_count >= 90` and `self.non_idle_count < 10`
SettleOver(count) == count >= 90

\* SettleClean with `<=` for `<`
SettleClean_Le10(count) == count <= 10

SettleClean(count) == count < 10

\* EndOfCycle | WaitingForPhase | FaultyBit arm of read_bit
WaitingArm(self, bit) ==
    IF bit
    THEN [self EXCEPT !.zero_bit_count = 1, !.one_bit_count = 0,
                      !.sample_count = 0, !.non_idle_count = 0,
                      !.state = "PhaseFound"]
    ELSE IF EndOfCycleDue(self.sample_count)
         THEN [self EXCEPT !.data_pos = 0, !.sample_count = 0,
                           !.state = "EndOfCycle"]
         ELSE [self EXCEPT !.state = "WaitingForPhase"]

\* AdvancePos that leaves the position where it is
AdvancePos_Stay(pos) == pos

\* `self.data_pos += 1`
AdvancePos(pos) == pos + 1

\* WriteBit with the `!` of the mask missing
WriteBit_NoNegation(reg, index, value) ==
    IF value THEN reg \cup {index} ELSE reg \cap {index}

\* `self.data |= 1 << data_pos` and `self.data &= !(1 << data_pos)`
WriteBit(reg, index, value) ==
    IF value THEN reg \cup {index} ELSE reg \ {index}

\* PhaseFound arm of read_bit
PhaseFoundArm(self, bit) ==
    IF InScan(self.sample_count)
    THEN IF bit
         THEN IF InZeroWindow(self.sample_count)
              THEN LET r == AddU8(self.zero_bit_count)
                   IN  IF r.panic THEN Panic(self)
                       ELSE [self EXCEPT !.zero_bit_count = r.val]
              ELSE LET r == AddU8(self.one_bit_count)
                   IN  IF r.panic THEN Panic(self)
                       ELSE [self EXCEPT !.one_bit_count = r.val]
         ELSE self
    ELSE LET pos == self.data_pos
             adv == [self EXCEPT !.data_pos = AdvancePos(pos)]
             dec == BitDecision(self.zero_bit_count, self.one_bit_count)
             m == ShlU64(pos)
         IN  IF dec = "faulty"
             THEN [adv EXCEPT !.data_pos = 0, !.state = "FaultyBit"]
             ELSE IF m.panic THEN Panic(adv)
                  ELSE [adv EXCEPT !.data = WriteBit(@, m.val, dec = "one"),
                                   !.state = "BitReceived"]

\* BitReceived | Idle arm of read_bit
IdleArm(self, bit) ==
    LET r == AddU8(self.non_idle_count)
        c == IF bit THEN [self EXCEPT !.non_idle_count = r.val] ELSE self
    IN  IF bit /\ r.panic THEN Panic(self)
        ELSE IF SettleOver(c.sample_count)
             THEN IF SettleClean(c.non_idle_count)
                  THEN [c EXCEPT !.state = "WaitingForPhase"]
                  ELSE [c EXCEPT !.data_pos = 0, !.state = "FaultyBit"]
             ELSE [c EXCEPT !.state = "Idle"]

\* read_bit: the decoder the call leaves
read_bit(self, bit) ==
    LET a == IF self.state \in {"EndOfCycle", "WaitingForPhase", "FaultyBit"}
             THEN WaitingArm(self, bit)
             ELSE IF self.state = "PhaseFound"
                  THEN PhaseFoundArm(self, bit)
                  ELSE IdleArm(self, bit)
        r == AddU8(a.sample_count)
    IN  IF a.panicked THEN a
        ELSE IF r.panic THEN Panic(a)
        ELSE [a EXCEPT !.sample_count = r.val]

(***************************************************************************)
(* The signal source.  A second is SecondLen samples; its shape names the  *)
(* samples that are high.                                                  *)
(***************************************************************************)
ShapeHighs(s) ==
    CASE s = "Zero"    -> 0 .. 9
      [] s = "One"     -> 0 .. 19
      [] s = "Weak3"   -> 0 .. 2
      [] s = "Weak4"   -> 0 .. 3
      [] s = "Mid13"   -> 0 .. 12
      [] s = "Mid14"   -> 0 .. 13
      [] s = "Split33" -> (0 .. 2) \cup (10 .. 12)
      [] s = "Split34" -> (0 .. 2) \cup (10 .. 13)
      [] s = "Late10"  -> 10 .. 19
      [] s = "Stray90" -> (0 .. 9) \cup {90}
      [] s = "Noisy9"  -> (0 .. 9) \cup (30 .. 38)
      [] s = "Noisy10" -> (0 .. 9) \cup (30 .. 39)
      [] s = "Glitch"  -> {50}
      [] s = "High"    -> 0 .. (SecondLen - 1)
      [] s = "Edge90"  -> (0 .. 9) \cup (30 .. 38) \cup {90}
      [] s = "Late82"  -> 82 .. 91
      [] OTHER         -> {}

CleanShapes == {"Zero", "One", "Silent"}

Shapes ==
    CleanShapes \cup {"Weak3", "Weak4", "Mid13", "Mid14", "Split33", "Split34",
                      "Late10", "Stray90", "Noisy9", "Noisy10", "Glitch"}

\* the shapes above and those of a disturbed or displaced signal
NoisyShapes == Shapes \cup {"High", "Edge90", "Late82"}

Sample(s, i) == i \in ShapeHighs(s)

\* the bit that second i of minute m carries in a clean signal: the pattern,
\* inverted in every other minute
FrameBit(m, i) == ((i % FreeBits) \in pattern) # (m % 2 = 0)

WaitingStates == {"EndOfCycle", "WaitingForPhase", "FaultyBit"}

(***************************************************************************)
(* One call of read_bit with sample i of a second of shape s; `first` says *)
(* that the sample starts the second.                                      *)
(***************************************************************************)
Feed(s, i, first) ==
    LET bit == Sample(s, i)
        newMinute == first /\ shape \in {"None", "Silent"}
        idx == sinceSync + 1
        bSecIdx == IF newMinute THEN 0 ELSE secIdx
        bFrame == IF newMinute THEN {} ELSE frame
        bCompletes == IF newMinute THEN 0 ELSE completes
        bBitsOk == IF newMinute THEN TRUE ELSE bitsOk
        bFaults == IF newMinute THEN 0 ELSE faults
        bEocs == IF newMinute THEN 0 ELSE eocs
        nFrame == IF first /\ s = "One" THEN bFrame \cup {bSecIdx} ELSE bFrame
    IN
    /\ ~panicked
    /\ LET n == read_bit(Self, bit)
             isEdge == n.state = "PhaseFound" /\ state # "PhaseFound"
             isEoc == end_of_cycle(n)
         IN
         /\ sample_count' = n.sample_count
         /\ UNCHANGED overflow_checks
         /\ zero_bit_count' = n.zero_bit_count
         /\ one_bit_count' = n.one_bit_count
         /\ non_idle_count' = n.non_idle_count
         /\ state' = n.state
         /\ data' = n.data
         /\ data_pos' = n.data_pos
         /\ panicked' = n.panicked
         /\ sinceSync' = IF isEdge \/ isEoc THEN 0 ELSE idx
         /\ hi1' = IF isEdge THEN 1
                   ELSE IF state = "PhaseFound" /\ bit /\ idx <= 9 THEN hi1 + 1
                   ELSE hi1
         /\ hi2' = IF isEdge THEN 0
                   ELSE IF state = "PhaseFound" /\ bit /\ idx \in 10 .. 19 THEN hi2 + 1
                   ELSE hi2
         /\ waitLows' = IF bit THEN 0
                        ELSE IF waitLows > 0 \/ state = "WaitingForPhase"
                             THEN waitLows + 1
                             ELSE 0
         /\ waitEoc' = IF bit THEN FALSE
                       ELSE IF waitLows > 0 \/ state = "WaitingForPhase"
                            THEN waitEoc \/ isEoc
                            ELSE FALSE
         /\ written' = IF bit_faulty(n) \/ isEoc THEN {}
                       ELSE IF bit_complete(n)
                            THEN written \cup {ShlU64(data_pos).val}
                            ELSE written
         /\ completes' = IF bit_complete(n) THEN bCompletes + 1 ELSE bCompletes
         /\ bitsOk' = (bBitsOk /\ (bit_complete(n) =>
                          latest_bit(n) = BoolStr(bCompletes \in nFrame)))
         /\ faults' = IF bit_faulty(n) THEN bFaults + 1 ELSE bFaults
         /\ eocs' = IF isEoc THEN bEocs + 1 ELSE bEocs
         /\ hi3' = IF isEdge THEN 0
                   ELSE IF bit /\ idx \in 21 .. 90 THEN hi3 + 1
                   ELSE hi3
         /\ lowEoc' = (~bit /\ (isEoc \/ lowEoc))
         /\ eocGap' = IF bit \/ isEoc THEN 0 ELSE eocGap + 1
    /\ prev' = [self |-> Self, bit |-> bit, written |-> written,
                sinceSync |-> sinceSync, lowEoc |-> lowEoc, eocGap |-> eocGap]
    /\ lowRun' = IF bit THEN 0 ELSE lowRun + 1
    /\ shape' = s
    /\ k' = i + 1
    /\ seconds' = IF first THEN seconds + 1 ELSE seconds
    /\ secIdx' = IF first /\ s # "Silent" THEN bSecIdx + 1 ELSE bSecIdx
    /\ minute' = IF newMinute THEN minute + 1 ELSE minute
    /\ frame' = nFrame
    /\ clean' = ((IF newMinute THEN TRUE ELSE clean) /\ (first => s \in CleanShapes))
    /\ minStartOk' = IF newMinute
                     THEN state = "WaitingForPhase" /\ data_pos = 0
                     ELSE minStartOk
    /\ startWaiting' = IF first THEN state \in WaitingStates ELSE startWaiting
    /\ UNCHANGED << pattern, time, tin, out >>

\* no register drawn, no accessor called
NoInput == [kind |-> "none", field |-> "none", hi |-> 0, lo |-> 0, par |-> FALSE]

NoOutput == [op |-> "none", res |-> Err]

\* the decoder after SimpleDCF77Decoder::new(), before any sample
InitDecoder(p) ==
    /\ sample_count = new.sample_count
    /\ zero_bit_count = new.zero_bit_count
    /\ one_bit_count = new.one_bit_count
    /\ non_idle_count = new.non_idle_count
    /\ state = new.state
    /\ data = new.data
    /\ data_pos = new.data_pos
    /\ panicked = new.panicked
    /\ overflow_checks \in BOOLEAN
    /\ shape = "None"
    /\ k = SecondLen
    /\ seconds = 0
    /\ secIdx = 0
    /\ minute = 0
    /\ pattern = p
    /\ prev = [self |-> new, bit |-> FALSE, written |-> {}, sinceSync |-> 0,
               lowEoc |-> FALSE, eocGap |-> 0]
    /\ lowRun = 0
    /\ sinceSync = 0
    /\ hi1 = 0
    /\ hi2 = 0
    /\ waitLows = 0
    /\ waitEoc = FALSE
    /\ written = {}
    /\ startWaiting = TRUE
    /\ minStartOk = TRUE
    /\ clean = TRUE
    /\ frame = {}
    /\ completes = 0
    /\ bitsOk = TRUE
    /\ faults = 0
    /\ eocs = 0
    /\ hi3 = 0
    /\ lowEoc = FALSE
    /\ eocGap = 0

InitWith(p) ==
    /\ InitDecoder(p)
    /\ time = {}
    /\ tin = NoInput
    /\ out = NoOutput

(***************************************************************************)
(* Spec: a freshly created decoder fed MaxSeconds seconds of any shapes.   *)
(***************************************************************************)
Init == InitWith({})

\* the first sample of a second of any shape
StartSecond ==
    /\ k = SecondLen
    /\ seconds < MaxSeconds
    /\ \E s \in Shapes : Feed(s, 0, TRUE)

\* the next sample of the current second
ContinueSecond ==
    /\ k < SecondLen
    /\ Feed(shape, k, FALSE)

Next == StartSecond \/ ContinueSecond

Spec == Init /\ [][Next]_vars

(***************************************************************************)
(* SpecNoisy: a freshly created decoder fed NoisySeconds seconds of any     *)
(* shapes, those of a disturbed signal included.                           *)
(***************************************************************************)
StartNoisySecond ==
    /\ k = SecondLen
    /\ seconds < NoisySeconds
    /\ \E s \in NoisyShapes : Feed(s, 0, TRUE)

NextNoisy == StartNoisySecond \/ ContinueSecond

SpecNoisy == Init /\ [][NextNoisy]_vars

(***************************************************************************)
(* SpecMinute: a freshly created decoder fed MaxMinutes minutes of clean   *)
(* signal.  A minute is MinuteBits bit seconds and a silent second; the    *)
(* silent second may also be missing, and then the bit seconds run on to   *)
(* MaxBits before a silent second comes.                                   *)
(***************************************************************************)
InitMinute == \E p \in SUBSET (0 .. FreeBits - 1) : InitWith(p)

\* the first sample of a bit second
StartBitSecond ==
    /\ k = SecondLen
    /\ IF shape \in {"None", "Silent"}
       THEN /\ minute < MaxMinutes
            /\ Feed(IF FrameBit(minute + 1, 0) THEN "One" ELSE "Zero", 0, TRUE)
       ELSE /\ secIdx < MaxBits
            /\ Feed(IF FrameBit(minute, secIdx) THEN "One" ELSE "Zero", 0, TRUE)

\* the first sample of the silent second that ends a minute
StartSilentSecond ==
    /\ k = SecondLen
    /\ shape \notin {"None", "Silent"}
    /\ secIdx \in {MinuteBits, MaxBits}
    /\ Feed("Silent", 0, TRUE)

NextMinute == StartBitSecond \/ StartSilentSecond \/ ContinueSecond

SpecMinute == InitMinute /\ [][NextMinute]_vars

(***************************************************************************)
(* SpecTime: a DCF77Time built from a register and queried through its     *)
(* accessors.  The register is the frame of a valid minute, that frame     *)
(* with one field and its parity bit replaced by any value the bits hold,  *)
(* or the frame with up to MaxFlips bits of the 64 inverted.               *)
(***************************************************************************)
Fields == {"minutes", "hours", "day", "weekday", "month", "year"}

\* first bit, last bit and parity bit of a field of the frame
FieldStart(f) ==
    CASE f = "minutes" -> 21 [] f = "hours" -> 29 [] f = "day" -> 36
      [] f = "weekday" -> 42 [] f = "month" -> 45 [] f = "year" -> 50

FieldEnd(f) ==
    CASE f = "minutes" -> 27 [] f = "hours" -> 34 [] f = "day" -> 41
      [] f = "weekday" -> 44 [] f = "month" -> 49 [] f = "year" -> 57

FieldParityBit(f) ==
    CASE f = "minutes" -> 28 [] f = "hours" -> 35 [] OTHER -> 58

Pow2(n) == IF n <= 0 THEN 1 ELSE 2 ^ n

\* the largest units and tens nibble the bits of a field hold
MaxUnits(f) ==
    LET len == FieldEnd(f) - FieldStart(f) + 1
    IN  Pow2(IF len < 4 THEN len ELSE 4) - 1

MaxTens(f) == Pow2(FieldEnd(f) - FieldStart(f) + 1 - 4) - 1

\* the bits of a field that carries the nibbles T (tens) and U (units),
\* least significant bit first
EncodeBCD(f, T, U) ==
    {FieldStart(f) + j : j \in {j \in 0 .. 3 : (U \div (2 ^ j)) % 2 = 1}}
    \cup {FieldStart(f) + 4 + j : j \in {j \in 0 .. 3 : (T \div (2 ^ j)) % 2 = 1}}

\* the parity bit that makes the bits first .. last of reg even with it
EvenParity(reg, first, last, bit) ==
    IF Cardinality(reg \cap (first .. last)) % 2 = 1 THEN {bit} ELSE {}

\* the frame of 12:34 on Wednesday 2024-06-15, summer time
ValidMinute ==
    LET fields == {17}
                  \cup EncodeBCD("minutes", 3, 4) \cup EncodeBCD("hours", 1, 2)
                  \cup EncodeBCD("day", 1, 5) \cup EncodeBCD("weekday", 0, 3)
                  \cup EncodeBCD("month", 0, 6) \cup EncodeBCD("year", 2, 4)
    IN  fields \cup EvenParity(fields, 21, 27, 28)
               \cup EvenParity(fields, 29, 34, 35)
               \cup EvenParity(fields, 36, 57, 58)

Inputs ==
    {[kind |-> "frame", field |-> "none", hi |-> 0, lo |-> 0, par |-> FALSE]}
    \cup UNION {{[kind |-> "field", field |-> f, hi |-> T, lo |-> U, par |-> p] :
                    T \in 0 .. MaxTens(f), U \in 0 .. MaxUnits(f), p \in BOOLEAN} :
                  f \in Fields}

\* the register an input stands for
InputReg(t) ==
    IF t.kind = "field"
    THEN (ValidMinute \ ((FieldStart(t.field) .. FieldEnd(t.field))
                             \cup {FieldParityBit(t.field)}))
         \cup EncodeBCD(t.field, t.hi, t.lo)
         \cup (IF t.par THEN {FieldParityBit(t.field)} ELSE {})
    ELSE ValidMinute

Accessors ==
    {"validate_start", "cest_unchecked", "cest", "minutes_unchecked", "minutes",
     "hours_unchecked", "hours", "day_unchecked", "day", "weekday_unchecked",
     "month_unchecked", "year_unchecked", "date"}

\* the value an unchecked accessor returns, or the panic of its arithmetic
Returned(r) == IF r.panic THEN Panicked ELSE Ok(<< r.val >>)

\* the call of one public accessor of DCF77Time
Call(op, reg) ==
    CASE op = "validate_start"    -> validate_start(reg)
      [] op = "cest_unchecked"    -> Ok(<< cest_unchecked(reg) >>)
      [] op = "cest"              -> cest(reg)
      [] op = "minutes_unchecked" -> Returned(minutes_unchecked(reg))
      [] op = "minutes"           -> minutes(reg)
      [] op = "hours_unchecked"   -> Returned(hours_unchecked(reg))
      [] op = "hours"             -> hours(reg)
      [] op = "day_unchecked"     -> Returned(day_unchecked(reg))
      [] op = "day"               -> day(reg)
      [] op = "weekday_unchecked" -> Returned(weekday_unchecked(reg))
      [] op = "month_unchecked"   -> Returned(month_unchecked(reg))
      [] op = "year_unchecked"    -> Returned(year_unchecked(reg))
      [] op = "date"              -> date(reg)

decoderVars ==
    << sample_count, zero_bit_count, one_bit_count, non_idle_count, state, data,
       data_pos, overflow_checks, panicked, shape, k, seconds, secIdx, minute,
       pattern, prev, lowRun, sinceSync, hi1, hi2, waitLows, waitEoc, written,
       startWaiting, minStartOk, clean, frame, completes, bitsOk, faults, eocs,
       hi3, lowEoc, eocGap >>

InitTime ==
    /\ InitDecoder({})
    /\ tin \in Inputs
    /\ time = DCF77Time(InputReg(tin))
    /\ out = NoOutput

\* one more bit of the frame inverted
FlipBit ==
    /\ tin.kind \in {"frame", "flipped"}
    /\ tin.hi < MaxFlips
    /\ \E i \in 0 .. 63 :
          /\ time' = DCF77Time((time \ {i}) \cup ({i} \ time))
          /\ tin' = [tin EXCEPT !.kind = "flipped", !.hi = @ + 1, !.lo = i]
    /\ out' = NoOutput
    /\ UNCHANGED decoderVars

\* one accessor called on the register
CallAccessor ==
    /\ \E op \in Accessors : out' = [op |-> op, res |-> Call(op, time)]
    /\ UNCHANGED << time, tin >>
    /\ UNCHANGED decoderVars

NextTime == FlipBit \/ CallAccessor

SpecTime == InitTime /\ [][NextTime]_vars

(***************************************************************************)
(* Claims.                                                                 *)
(***************************************************************************)
\* the minute under way started in WaitingForPhase at bit position 0 and has
\* carried only clean seconds
CleanMinute == clean /\ minStartOk /\ seconds > 0

\* C1: a minute of MinuteBits clean bit seconds and a silent second, fed to a
\* decoder in WaitingForPhase at bit position 0: bit_complete() becomes true
\* once per bit second, MinuteBits times in all, latest_bit() being the k-th
\* frame bit the k-th time; bit_faulty() is never true; end_of_cycle() becomes
\* true exactly once, in the silent second, and bits 0..58 of raw_data() are
\* then the frame.
C1_MinuteDecode ==
    CleanMinute =>
        /\ (shape \in {"Zero", "One"} /\ secIdx <= MinuteBits) =>
              /\ eocs = 0
              /\ faults = 0
              /\ bitsOk
              /\ completes = (IF k >= 21 THEN secIdx ELSE secIdx - 1)
        /\ (shape = "Silent" /\ secIdx = MinuteBits) =>
              /\ faults = 0
              /\ bitsOk
              /\ completes = MinuteBits
              /\ eocs <= 1
              /\ (k = SecondLen => eocs = 1)
              /\ (end_of_cycle(Self) =>
                    \A i \in 0 .. MinuteBits - 1 : (i \in raw_data(Self)) = (i \in frame))

\* C1 witness: the second minute is complete, its frame has ones and zeros,
\* and the register held the inverted frame before
C1_Witness ==
    /\ CleanMinute
    /\ shape = "Silent" /\ secIdx = MinuteBits /\ k = SecondLen
    /\ minute = 2 /\ eocs = 1 /\ completes = MinuteBits
    /\ frame # {} /\ frame # 0 .. MinuteBits - 1

\* C2: a freshly created decoder fed 10 high samples and then low samples:
\* bit_complete() is true, with decoded value 0, after sample 20 and after no
\* other sample up to sample 90; bit_faulty() is never true up to sample 90;
\* after sample 90 the state is WaitingForPhase.
C2_CleanZero ==
    (seconds = 1 /\ shape = "Zero") =>
        /\ (k = 21 => bit_complete(Self) /\ latest_bit(Self) = "false")
        /\ (k \in 1 .. 91 /\ bit_complete(Self) => k = 21)
        /\ (k \in 1 .. 91 => ~bit_faulty(Self))
        /\ (k = 91 => state = "WaitingForPhase")

\* C2 witness: sample 90 of that second has been submitted
C2_Witness ==
    /\ seconds = 1 /\ shape = "Zero" /\ k = 91
    /\ state = "WaitingForPhase" /\ data_pos = 1

\* C3 as stated: 10 low samples, 10 high samples and then low samples, fed
\* to a decoder waiting for a phase, finalize a bit of value 1.
C3_Original ==
    (shape = "Late10" /\ startWaiting /\ bit_complete(Self)) =>
        latest_bit(Self) = "true"

\* C3 as amended: 20 high samples and then low samples, fed to a decoder
\* waiting for a phase, finalize one bit, at sample 20, of value 1; 10 low
\* samples, 10 high samples and then low samples finalize a bit of value 0,
\* 20 samples after the first high one.  (A call that panics finalizes no
\* bit.)
C3_CleanOne ==
    /\ (shape = "One" /\ startWaiting /\ ~panicked) =>
          /\ (k = 21 => bit_complete(Self) /\ latest_bit(Self) = "true")
          /\ (k \in 1 .. 91 /\ bit_complete(Self) => k = 21)
    /\ (shape = "Late10" /\ startWaiting /\ ~panicked) =>
          /\ (k = 31 => bit_complete(Self) /\ latest_bit(Self) = "false")
          /\ (k \in 1 .. 100 /\ bit_complete(Self) => k = 31)

\* C3 witness: a 1 has just been finalized in a second that is not the first
C3_Witness ==
    /\ shape = "One" /\ startWaiting /\ k = 21 /\ seconds = 2
    /\ bit_complete(Self) /\ latest_bit(Self) = "true"

\* C4 as stated: a call ends in EndOfCycle only when the more than 180 most
\* recently submitted samples were all low.
C4_Original == end_of_cycle(Self) => lowRun > 180

\* C4 as amended: a call ends in EndOfCycle only when more than 180 samples
\* have been submitted since the last accepted rising edge (or the last
\* EndOfCycle, or the creation of the decoder) and the 91 most recently
\* submitted samples were all low.
C4_EndOfCycleAfterSync ==
    end_of_cycle(Self) => (prev.sinceSync + 1 > 180 /\ lowRun >= 91)

\* C4 witness: EndOfCycle after a run of exactly 91 low samples
C4_Witness == end_of_cycle(Self) /\ lowRun = 91 /\ prev.sinceSync + 1 = 181

\* C5 as stated: 180 consecutive low samples submitted from WaitingForPhase
\* on have made end_of_cycle() true.
C5_Original == waitLows >= 180 => waitEoc

\* C5 as amended: 182 consecutive low samples submitted from WaitingForPhase
\* on have made end_of_cycle() true, and the bit position is 0 whenever
\* end_of_cycle() is true.
C5_EndOfCycleReported ==
    /\ waitLows >= 182 => waitEoc
    /\ end_of_cycle(Self) => data_pos = 0

\* C5 witness: the 182nd low sample fed to a fresh decoder ends in EndOfCycle
C5_Witness ==
    /\ waitLows = 182 /\ waitEoc /\ end_of_cycle(Self)
    /\ seconds = 2 /\ k = 82 /\ prev.self.sample_count = 181

\* C6 as stated: whenever end_of_cycle() is true, the bit position before the
\* reset was 59.
C6_Original == end_of_cycle(Self) => prev.self.data_pos = MinuteBits

\* C6 as amended: whenever end_of_cycle() is true, the bit position n before
\* the reset is the number of bits finalized since the previous reset of the
\* bit position, whatever that number is, and the register bits written by
\* those bits are the bits 0..n-1 (indices taken modulo 64).
C6_SnapshotPrefix ==
    end_of_cycle(Self) =>
        prev.written = {i % 64 : i \in 0 .. prev.self.data_pos - 1}

\* C6 witness: EndOfCycle with a bit position other than 0 and 59 before it
C6_Witness ==
    /\ end_of_cycle(Self)
    /\ prev.self.data_pos >= 1 /\ prev.self.data_pos < MinuteBits

\* C7: the bit position is at most 59 in every reachable state.
C7_Original == seconds_of(Self) <= 59

\* C8: latest_bit() never panics, in any reachable state.
C8_Original == latest_bit(Self) # "panic"

\* C9: when the decision sample of PhaseFound (sample 20 after the rising
\* edge) comes with fewer than 4 high samples in each of the two windows, the
\* call ends with bit_faulty() true, bit_complete() false, the bit position 0
\* and raw_data() unchanged.
C9_AmbiguousBit ==
    (seconds > 0 /\ prev.self.state = "PhaseFound" /\ sinceSync = 20
        /\ hi1 < 4 /\ hi2 < 4) =>
        /\ bit_faulty(Self)
        /\ ~bit_complete(Self)
        /\ seconds_of(Self) = 0
        /\ raw_data(Self) = raw_data(prev.self)

\* C9 witness: a faulty decision with 3 high samples in each window and a
\* register that holds a bit
C9_Witness ==
    /\ prev.self.state = "PhaseFound" /\ sinceSync = 20
    /\ hi1 = 3 /\ hi2 = 3
    /\ bit_faulty(Self) /\ prev.self.data_pos = 1 /\ raw_data(Self) # {}

\* the register bits that differ between two register values
Changed(a, b) == (a \ b) \cup (b \ a)

\* C10 as stated: a call that ends in EndOfCycle or FaultyBit leaves the bit
\* position 0 and the register cleared; no other call lowers the bit position
\* or clears a register bit below it.
C10_Original ==
    seconds > 0 =>
        IF end_of_cycle(Self) \/ bit_faulty(Self)
        THEN data_pos = 0 /\ data = {}
        ELSE /\ data_pos >= prev.self.data_pos
             /\ \A i \in prev.self.data : i < prev.self.data_pos => i \in data

\* C10 as amended: a call that ends in EndOfCycle or FaultyBit leaves the bit
\* position 0 and the register as it was (the register is never cleared); no
\* other call lowers the bit position, and it changes no register bit but the
\* one at the bit position (modulo 64).
C10_ResetFrame ==
    seconds > 0 =>
        IF end_of_cycle(Self) \/ bit_faulty(Self)
        THEN data_pos = 0 /\ data = prev.self.data
        ELSE /\ data_pos \in {prev.self.data_pos, prev.self.data_pos + 1}
             /\ Changed(data, prev.self.data) \subseteq {prev.self.data_pos % 64}

\* C10 witness: FaultyBit out of Idle with a bit position above 0 and a
\* register that holds a bit
C10_Witness ==
    /\ bit_faulty(Self) /\ prev.self.state = "Idle"
    /\ prev.self.data_pos >= 1 /\ data # {}

\* C16: with the rising edge as sample 0, the high samples 0..9 are the tally
\* of the zero window and the high samples 10..19 that of the one window; the
\* call of sample 20 decides 1 if the one window has more than 3, else 0 if
\* the zero window has more than 3, and then it ends in BitReceived, has set
\* exactly the register bit at the bit position to the decided value, and
\* has advanced the bit position by 1.
C16_Original ==
    /\ (state = "PhaseFound" /\ ~panicked) =>
          zero_bit_count = hi1 /\ one_bit_count = hi2
    /\ (seconds > 0 /\ prev.self.state = "PhaseFound" /\ sinceSync = 20
          /\ (hi1 > 3 \/ hi2 > 3)) =>
          /\ ~panicked
          /\ state = "BitReceived"
          /\ data_pos = prev.self.data_pos + 1
          /\ data = IF hi2 > 3
                    THEN prev.self.data \cup {prev.self.data_pos}
                    ELSE prev.self.data \ {prev.self.data_pos}

\* C17: a call that starts in BitReceived or Idle is the call of one of the
\* samples 21..90 after the rising edge; before sample 90 it ends in Idle
\* with the bit position kept, whatever the sample; at sample 90 it ends in
\* WaitingForPhase with the bit position kept if fewer than 10 of the samples
\* 21..90 were high, and in FaultyBit with bit position 0 otherwise.
C17_SettleWindow ==
    (seconds > 0 /\ prev.self.state \in {"BitReceived", "Idle"}) =>
        /\ sinceSync \in 21 .. 90
        /\ prev.self.state = "BitReceived" <=> sinceSync = 21
        /\ non_idle_count = hi3
        /\ sinceSync < 90 => state = "Idle" /\ data_pos = prev.self.data_pos
        /\ sinceSync = 90 =>
              IF hi3 < 10
              THEN state = "WaitingForPhase" /\ data_pos = prev.self.data_pos
              ELSE state = "FaultyBit" /\ data_pos = 0

\* the tenth high sample of the settle window is sample 90 itself
C17_Witness ==
    /\ shape = "Edge90" /\ prev.self.state = "Idle" /\ sinceSync = 90
    /\ prev.bit /\ hi3 = 10 /\ prev.self.data_pos = 1
    /\ state = "FaultyBit" /\ data_pos = 0

\* C18: a call that starts in BitReceived, FaultyBit or EndOfCycle does not
\* end in the state it started in; from FaultyBit and from EndOfCycle a high
\* sample leads to PhaseFound with the bit position 0 and the tallies of a
\* bit that starts, a low sample to WaitingForPhase.
C18_Transient ==
    seconds > 0 =>
        /\ prev.self.state \in {"BitReceived", "FaultyBit", "EndOfCycle"} =>
              state # prev.self.state
        /\ prev.self.state \in {"FaultyBit", "EndOfCycle"} =>
              IF prev.bit
              THEN /\ state = "PhaseFound" /\ data_pos = 0
                   /\ zero_bit_count = 1 /\ one_bit_count = 0 /\ sinceSync = 0
              ELSE state = "WaitingForPhase"

\* a high sample right after the call that ended in EndOfCycle
C18_Witness ==
    /\ prev.self.state = "EndOfCycle" /\ prev.bit
    /\ state = "PhaseFound" /\ data_pos = 0

\* C19: while only low samples come, no call panics; end_of_cycle() has been
\* true within the first 182 calls of the low samples, and from then on it is
\* true again on every 181st call; the bit position is 0 whenever it is true.
C19_Original ==
    /\ lowRun > 0 => ~panicked
    /\ lowRun >= 182 => lowEoc
    /\ lowEoc => eocGap <= 180
    /\ (end_of_cycle(Self) /\ prev.lowEoc) => prev.eocGap = 180
    /\ end_of_cycle(Self) => data_pos = 0

\* C20: in every reachable state sample_count <= 181, zero_bit_count <= 10,
\* one_bit_count <= 10 and non_idle_count <= 70, so that no increment of the
\* four 8-bit counters starts from 255.
C20_CounterBounds ==
    /\ sample_count <= 181
    /\ zero_bit_count <= 10
    /\ one_bit_count <= 10
    /\ non_idle_count <= 70

\* both windows and the settle window full of high samples, in the second
\* second fed
C20_Witness ==
    /\ prev.self.sample_count = 90 /\ shape = "High" /\ seconds = 2
    /\ zero_bit_count = 10 /\ one_bit_count = 10 /\ non_idle_count = 70

(***************************************************************************)
(* Claims about DCF77Time, under SpecTime.                                 *)
(***************************************************************************)
\* the register with bit b inverted
Flipped(reg, b) == (reg \ {b}) \cup ({b} \ reg)

\* the XOR of the bits first .. last of reg
XorBits(reg, first, last) == Cardinality(reg \cap (first .. last)) % 2 = 1

\* what every unchecked accessor returns for the valid minute
UncheckedOfValidMinute ==
    /\ out.op = "cest_unchecked" => out.res = Ok(<< TRUE >>)
    /\ out.op = "minutes_unchecked" => out.res = Ok(<< 34 >>)
    /\ out.op = "hours_unchecked" => out.res = Ok(<< 12 >>)
    /\ out.op = "day_unchecked" => out.res = Ok(<< 15 >>)
    /\ out.op = "weekday_unchecked" => out.res = Ok(<< 3 >>)
    /\ out.op = "month_unchecked" => out.res = Ok(<< 6 >>)
    /\ out.op = "year_unchecked" => out.res = Ok(<< 2024 >>)

\* C11: the valid minute 12:34 of 2024-06-15 (weekday 3, start bit 0, summer
\* time flags disagreeing) decodes to minutes() = Ok(34), hours() = Ok(12)
\* and date() = Ok((2024, 6, 15, 3)); with only parity bit 28, 35 or 58
\* inverted, minutes(), hours() or date() respectively is Err and every
\* unchecked accessor returns what it returned for the valid minute.
C11_ValidMinute ==
    /\ time = ValidMinute =>
          /\ 0 \notin time /\ (17 \in time) # (18 \in time)
          /\ out.op = "validate_start" => out.res = Ok(<< >>)
          /\ out.op = "cest" => out.res = Ok(<< TRUE >>)
          /\ out.op = "minutes" => out.res = Ok(<< 34 >>)
          /\ out.op = "hours" => out.res = Ok(<< 12 >>)
          /\ out.op = "date" => out.res = Ok(<< 2024, 6, 15, 3 >>)
          /\ UncheckedOfValidMinute
    /\ time = Flipped(ValidMinute, 28) =>
          /\ out.op = "minutes" => out.res = Err
          /\ UncheckedOfValidMinute
    /\ time = Flipped(ValidMinute, 35) =>
          /\ out.op = "hours" => out.res = Err
          /\ UncheckedOfValidMinute
    /\ time = Flipped(ValidMinute, 58) =>
          /\ out.op = "date" => out.res = Err
          /\ UncheckedOfValidMinute

\* minutes() called on the valid minute with parity bit 28 inverted
C11_Witness ==
    /\ tin.kind = "flipped" /\ time = Flipped(ValidMinute, 28)
    /\ out.op = "minutes" /\ out.res = Err

\* C12: minutes() is Ok(m) exactly when bit 28 equals the XOR of bits 21..27
\* and the decoded value is at most 59, and then m is minutes_unchecked();
\* hours() is Ok(h) exactly when bit 35 equals the XOR of bits 29..34 and the
\* decoded value is at most 23, and then h is hours_unchecked(); otherwise
\* the accessor is Err.
C12_MinutesHours ==
    /\ out.op = "minutes" =>
          out.res = IF /\ (28 \in time) = XorBits(time, 21, 27)
                       /\ minutes_unchecked(time).val <= 59
                    THEN Ok(<< minutes_unchecked(time).val >>)
                    ELSE Err
    /\ out.op = "hours" =>
          out.res = IF /\ (35 \in time) = XorBits(time, 29, 34)
                       /\ hours_unchecked(time).val <= 23
                    THEN Ok(<< hours_unchecked(time).val >>)
                    ELSE Err

\* hours() accepting 23 with bit 34 set and the parity bit 35 matching
C12_Witness ==
    /\ tin.kind = "field" /\ tin.field = "hours" /\ tin.hi = 2 /\ tin.lo = 3
    /\ 34 \in time /\ (35 \in time) = XorBits(time, 29, 34)
    /\ out.op = "hours" /\ out.res = Ok(<< 23 >>)

\* C13: date() is Ok((year, month, day, weekday)) exactly when bit 58 equals
\* the XOR of bits 36..57 and year <= 2100, month <= 12, day <= 31 and
\* weekday <= 7, the components being those of the unchecked accessors;
\* otherwise it is Err; and the outcome is that of the register restricted
\* to bits 36..58.
C13_Date ==
    out.op = "date" =>
       /\ out.res = IF /\ (58 \in time) = XorBits(time, 36, 57)
                       /\ year_unchecked(time).val <= 2100
                       /\ month_unchecked(time).val <= 12
                       /\ day_unchecked(time).val <= 31
                       /\ weekday_unchecked(time).val <= 7
                    THEN Ok(<< year_unchecked(time).val, month_unchecked(time).val,
                               day_unchecked(time).val, weekday_unchecked(time).val >>)
                    ELSE Err
       /\ out.res = date(time \cap (36 .. 58))

\* date() refusing the year 2101 although the date parity matches
C13_Witness ==
    /\ tin.kind = "field" /\ tin.field = "year"
    /\ year_unchecked(time).val = 2101
    /\ (58 \in time) = XorBits(time, 36, 57)
    /\ out.op = "date" /\ out.res = Err

\* the checked accessors that cover a field
CheckedOf(f) ==
    CASE f = "minutes" -> {"minutes"}
      [] f = "hours"   -> {"hours"}
      [] f = "day"     -> {"day", "date"}
      [] OTHER         -> {"date"}

\* C14: whenever the tens or the units nibble of a field is greater than 9,
\* the checked accessor covering the field is Err.
C14_Original ==
    (/\ tin.kind = "field"
     /\ tin.hi > 9 \/ tin.lo > 9
     /\ out.op \in CheckedOf(tin.field)) => out.res = Err

\* the unchecked accessor of a field
UncheckedOf(f) ==
    CASE f = "minutes" -> "minutes_unchecked"
      [] f = "hours"   -> "hours_unchecked"
      [] f = "day"     -> "day_unchecked"
      [] f = "weekday" -> "weekday_unchecked"
      [] f = "month"   -> "month_unchecked"
      [] f = "year"    -> "year_unchecked"

\* C15: a field that carries the digits T and U in its nibbles decodes to
\* 10 * T + U (2000 more for the year), for every T and U in 0..9 the field
\* holds; and for every nibble pair 0..15 the 8-bit arithmetic of the decoding
\* neither panics nor wraps.
C15_RoundTrip ==
    (tin.kind = "field" /\ out.op = UncheckedOf(tin.field)) =>
       /\ out.res.tag # "Panic"
       /\ out.res = Ok(<< (IF tin.field = "year" THEN 2000 ELSE 0)
                          + 10 * tin.hi + tin.lo >>)

\* the year 99 decoded, and the largest nibble pair decoded without overflow
C15_Witness ==
    /\ tin.kind = "field" /\ tin.field = "year" /\ tin.hi = 9 /\ tin.lo = 9
    /\ out.op = "year_unchecked" /\ out.res = Ok(<< 2099 >>)

====
